---- MODULE Spec2Model ----
(***************************************************************************)
(* Model of the search-box text cursor, src/command/client/search/cursor.rs *)
(*                                                                         *)
(* The buffer is a Rust String: a sequence of UTF-8 bytes.  `index` is a   *)
(* byte offset.  Characters are Unicode scalar values (integers); the      *)
(* encoding and decoding between characters and bytes is modelled as       *)
(* UTF-8 does it, so that char-counted and byte-counted offsets differ on  *)
(* multi-byte text, as they do in the program.                             *)
(***************************************************************************)
EXTENDS Integers, Sequences, FiniteSets, TLC

VARIABLES source, index, op, arg, ret, panicked, old_source, old_index, walk

vars == <<source, index, op, arg, ret, panicked, old_source, old_index, walk>>

(***************************************************************************)
(* Bounds                                                                  *)
(***************************************************************************)
\* largest number of characters the buffer holds in the model
MaxLen == 3

\* largest number of characters of a single-byte buffer
MaxAsciiLen == 5

(***************************************************************************)
(* Characters of the model: 'a', ' ', '.', U+00F6 (2 bytes, the tests' o   *)
(* with diaeresis) and U+3000 (ideographic space, 3 bytes, whitespace).    *)
(***************************************************************************)
Alphabet == {97, 32, 46, 246, 12288}

\* the single-byte characters of Alphabet
AsciiAlphabet == {c \in Alphabet : c < 128}

(***************************************************************************)
(* UTF-8                                                                   *)
(***************************************************************************)
\* char::len_utf8
len_utf8(c) == IF c < 128 THEN 1 ELSE IF c < 2048 THEN 2 ELSE IF c < 65536 THEN 3 ELSE 4

\* char::encode_utf8: the bytes of one character
encode_utf8(c) ==
    IF c < 128 THEN <<c>>
    ELSE IF c < 2048 THEN <<192 + (c \div 64), 128 + (c % 64)>>
    ELSE IF c < 65536 THEN <<224 + (c \div 4096), 128 + ((c \div 64) % 64), 128 + (c % 64)>>
    ELSE <<240 + (c \div 262144), 128 + ((c \div 4096) % 64),
           128 + ((c \div 64) % 64), 128 + (c % 64)>>

\* String::from / collect: the bytes of a sequence of characters
RECURSIVE from_chars(_)
from_chars(cs) == IF cs = <<>> THEN <<>> ELSE encode_utf8(Head(cs)) \o from_chars(Tail(cs))

\* width of the encoded character whose first byte is b
utf8_char_width(b) == IF b < 128 THEN 1 ELSE IF b < 224 THEN 2 ELSE IF b < 240 THEN 3 ELSE 4

\* the character decoded from the w bytes of s that start at (1-based) k
decode_at(s, k, w) ==
    IF w = 1 THEN s[k]
    ELSE IF w = 2 THEN (s[k] - 192) * 64 + (s[k + 1] - 128)
    ELSE IF w = 3 THEN (s[k] - 224) * 4096 + (s[k + 1] - 128) * 64 + (s[k + 2] - 128)
    ELSE (s[k] - 240) * 262144 + (s[k + 1] - 128) * 4096 + (s[k + 2] - 128) * 64 + (s[k + 3] - 128)

\* str::chars: the characters of a (valid UTF-8) byte sequence, in order
RECURSIVE chars(_)
chars(s) ==
    IF s = <<>> THEN <<>>
    ELSE LET w == utf8_char_width(s[1])
         IN  <<decode_at(s, 1, w)>> \o chars(SubSeq(s, w + 1, Len(s)))

\* str::is_char_boundary
is_char_boundary(s, i) ==
    IF i = 0 THEN TRUE
    ELSE IF i >= Len(s) THEN i = Len(s)
    ELSE ~(s[i + 1] >= 128 /\ s[i + 1] < 192)

(***************************************************************************)
(* Option / result values                                                  *)
(***************************************************************************)
\* Option<usize>::None of Iterator::find
None == -1
\* a panic raised while evaluating (Option::unwrap on None, a str assertion)
Panic == -2

Unit == <<"unit">>
NoneChar == <<"none">>
SomeChar(c) == <<"some", c>>
Bool(b) == <<"bool", b>>
Str(s) == <<"str", s>>
Panicked == <<"panic">>

\* what an operation leaves behind: the cursor, the value returned, and
\* whether it panicked instead of returning
Result(s, i, r) == [source |-> s, index |-> i, ret |-> r, panicked |-> FALSE]
Abort(s, i) == [source |-> s, index |-> i, ret |-> Panicked, panicked |-> TRUE]

(***************************************************************************)
(* Word classification                                                     *)
(***************************************************************************)
\* char::is_whitespace: the Unicode White_Space code points
is_whitespace(c) ==
    \/ c \in 9..13
    \/ c \in {32, 133, 160, 5760, 8232, 8233, 8239, 8287, 12288}
    \/ c \in 8192..8202

\* the characters of  ./\()"'-:,.;<>~!@#$%^&*|+=[]{}`~?
WORD_SEPARATORS ==
    {46, 47, 92, 40, 41, 34, 39, 45, 58, 44, 59, 60, 62, 126, 33, 64, 35, 36,
     37, 94, 38, 42, 124, 43, 61, 91, 93, 123, 125, 96, 63}

\* is_word_boundary() without its last test: word-to-separator is missed
is_word_boundary_one_way(c, next_c) ==
    \/ (is_whitespace(c) /\ ~is_whitespace(next_c))
    \/ (~is_whitespace(c) /\ is_whitespace(next_c))
    \/ (c \in WORD_SEPARATORS /\ next_c \notin WORD_SEPARATORS)

is_word_boundary(c, next_c) ==
    \/ (is_whitespace(c) /\ ~is_whitespace(next_c))
    \/ (~is_whitespace(c) /\ is_whitespace(next_c))
    \/ (c \in WORD_SEPARATORS /\ next_c \notin WORD_SEPARATORS)
    \/ (c \notin WORD_SEPARATORS /\ next_c \in WORD_SEPARATORS)

(***************************************************************************)
(* Iterator helpers                                                        *)
(***************************************************************************)
Min(S) == CHOOSE m \in S : \A n \in S : m <= n
Max(S) == CHOOSE m \in S : \A n \in S : m >= n

\* source.chars().nth(i): the i-th character counted in characters, or None
nth(cs, i) == IF i < Len(cs) THEN cs[i + 1] ELSE None

\* (lo..hi).find(f): the first i of lo..hi-1 in increasing order at which the
\* closure is true; a closure that panics before that aborts the search.
\* f maps each i to "true", "false" or "panic".
find(lo, hi, f) ==
    LET hits == {i \in lo..(hi - 1) : f[i] # "false"}
    IN  IF hits = {} THEN None
        ELSE IF f[Min(hits)] = "panic" THEN Panic ELSE Min(hits)

\* (lo..hi).rev().find(f): the same, in decreasing order
rev_find(lo, hi, f) ==
    LET hits == {i \in lo..(hi - 1) : f[i] # "false"}
    IN  IF hits = {} THEN None
        ELSE IF f[Max(hits)] = "panic" THEN Panic ELSE Max(hits)

\* usize::saturating_sub
saturating_sub(a, b) == IF a >= b THEN a - b ELSE 0

(***************************************************************************)
(* Word positions                                                          *)
(***************************************************************************)
\* get_next_word_pos() that stays where it is when it finds no boundary
get_next_word_pos_stays(s, i) ==
    LET cs == chars(s)
        len == Len(s)
        pair == [k \in i..(saturating_sub(len, 1) - 1) |->
                   IF nth(cs, k) = None \/ nth(cs, k + 1) = None THEN "panic"
                   ELSE IF is_word_boundary(nth(cs, k), nth(cs, k + 1)) THEN "true"
                   ELSE "false"]
        first == find(i, saturating_sub(len, 1), pair)
    IN  IF first = Panic THEN Panic
        ELSE IF first = None THEN i
        ELSE LET nonws == [k \in (first + 1)..(len - 1) |->
                             IF nth(cs, k) = None THEN "panic"
                             ELSE IF ~is_whitespace(nth(cs, k)) THEN "true"
                             ELSE "false"]
                 second == find(first + 1, len, nonws)
             IN  IF second = Panic THEN Panic
                 ELSE IF second = None THEN len
                 ELSE second

\* get_next_word_pos() whose second scan starts at the boundary itself, not
\* one past it
get_next_word_pos_rescans(s, i) ==
    LET cs == chars(s)
        len == Len(s)
        pair == [k \in i..(saturating_sub(len, 1) - 1) |->
                   IF nth(cs, k) = None \/ nth(cs, k + 1) = None THEN "panic"
                   ELSE IF is_word_boundary(nth(cs, k), nth(cs, k + 1)) THEN "true"
                   ELSE "false"]
        first == find(i, saturating_sub(len, 1), pair)
    IN  IF first = Panic THEN Panic
        ELSE IF first = None THEN len
        ELSE LET nonws == [k \in first..(len - 1) |->
                             IF nth(cs, k) = None THEN "panic"
                             ELSE IF ~is_whitespace(nth(cs, k)) THEN "true"
                             ELSE "false"]
                 second == find(first, len, nonws)
             IN  IF second = Panic THEN Panic
                 ELSE IF second = None THEN len
                 ELSE second

get_next_word_pos(s, i) ==
    LET cs == chars(s)
        len == Len(s)
        pair == [k \in i..(saturating_sub(len, 1) - 1) |->
                   IF nth(cs, k) = None \/ nth(cs, k + 1) = None THEN "panic"
                   ELSE IF is_word_boundary(nth(cs, k), nth(cs, k + 1)) THEN "true"
                   ELSE "false"]
        first == find(i, saturating_sub(len, 1), pair)
    IN  IF first = Panic THEN Panic
        ELSE IF first = None THEN len
        ELSE LET nonws == [k \in (first + 1)..(len - 1) |->
                             IF nth(cs, k) = None THEN "panic"
                             ELSE IF ~is_whitespace(nth(cs, k)) THEN "true"
                             ELSE "false"]
                 second == find(first + 1, len, nonws)
             IN  IF second = Panic THEN Panic
                 ELSE IF second = None THEN len
                 ELSE second

get_prev_word_pos(s, i) ==
    LET cs == chars(s)
        nonws == [k \in 1..(i - 1) |->
                    IF nth(cs, k) = None THEN "panic"
                    ELSE IF ~is_whitespace(nth(cs, k)) THEN "true"
                    ELSE "false"]
        first == rev_find(1, i, nonws)
    IN  IF first = Panic THEN Panic
        ELSE IF first = None THEN 0
        ELSE LET pair == [k \in 1..(first - 1) |->
                            IF nth(cs, k - 1) = None \/ nth(cs, k) = None THEN "panic"
                            ELSE IF is_word_boundary(nth(cs, k - 1), nth(cs, k)) THEN "true"
                            ELSE "false"]
                 second == rev_find(1, first, pair)
             IN  IF second = Panic THEN Panic
                 ELSE IF second = None THEN 0
                 ELSE second

(***************************************************************************)
(* String primitives used by the cursor                                    *)
(***************************************************************************)
\* &s[..i]: the bytes before offset i
prefix(s, i) == SubSeq(s, 1, i)

\* &s[i..]: the bytes from offset i on
suffix(s, i) == SubSeq(s, i + 1, Len(s))

\* String::insert, once its boundary assertion has passed
string_insert(s, i, c) == prefix(s, i) \o encode_utf8(c) \o suffix(s, i)

\* the assertions of String::replace_range(a..b, _)
range_ok(s, a, b) == a <= b /\ is_char_boundary(s, a) /\ is_char_boundary(s, b)

\* String::replace_range(a..b, ""), once its assertions have passed
replace_range(s, a, b) == prefix(s, a) \o suffix(s, b)

\* the loop of right(): the first boundary at or after i
RECURSIVE boundary_up(_, _)
boundary_up(s, i) == IF is_char_boundary(s, i) THEN i ELSE boundary_up(s, i + 1)

\* the loop of left(): the first boundary at or before i
RECURSIVE boundary_down(_, _)
boundary_down(s, i) == IF is_char_boundary(s, i) THEN i ELSE boundary_down(s, i - 1)

(***************************************************************************)
(* The operations of Cursor, as functions of (source, index)               *)
(***************************************************************************)
substring(s, i) ==
    IF is_char_boundary(s, i) THEN Result(s, i, Str(prefix(s, i))) ELSE Abort(s, i)

char(s, i) ==
    IF ~is_char_boundary(s, i) THEN Abort(s, i)
    ELSE IF i = Len(s) THEN Result(s, i, NoneChar)
    ELSE Result(s, i, SomeChar(decode_at(s, i + 1, utf8_char_width(s[i + 1]))))

\* right() advancing one byte instead of one character
right_one_byte(s, i) ==
    IF i < Len(s) THEN Result(s, i + 1, Unit) ELSE Result(s, i, Unit)

right(s, i) ==
    IF i < Len(s) THEN Result(s, boundary_up(s, i + 1), Unit) ELSE Result(s, i, Unit)

\* left() retreating one byte instead of one character
left_one_byte(s, i) ==
    IF i > 0 THEN Result(s, i - 1, Bool(TRUE)) ELSE Result(s, i, Bool(FALSE))

left(s, i) ==
    IF i > 0 THEN Result(s, boundary_down(s, i - 1), Bool(TRUE)) ELSE Result(s, i, Bool(FALSE))

next_word(s, i) ==
    LET n == get_next_word_pos(s, i)
    IN  IF n = Panic THEN Abort(s, i) ELSE Result(s, n, Unit)

prev_word(s, i) ==
    LET n == get_prev_word_pos(s, i)
    IN  IF n = Panic THEN Abort(s, i) ELSE Result(s, n, Unit)

\* insert() that advances the cursor by one byte whatever the character
insert_advances_one(s, i, c) ==
    IF is_char_boundary(s, i) THEN Result(string_insert(s, i, c), i + 1, Unit)
    ELSE Abort(s, i)

\* insert() that does not advance the cursor past the new character
insert_keeps_index(s, i, c) ==
    IF is_char_boundary(s, i) THEN Result(string_insert(s, i, c), i, Unit)
    ELSE Abort(s, i)

insert(s, i, c) ==
    IF is_char_boundary(s, i) THEN Result(string_insert(s, i, c), i + len_utf8(c), Unit)
    ELSE Abort(s, i)

\* remove() that returns the character under the cursor and leaves it there
remove_peeks(s, i) ==
    IF i < Len(s)
    THEN IF is_char_boundary(s, i)
         THEN Result(s, i, SomeChar(decode_at(s, i + 1, utf8_char_width(s[i + 1]))))
         ELSE Abort(s, i)
    ELSE Result(s, i, NoneChar)

remove(s, i) ==
    IF i < Len(s)
    THEN IF is_char_boundary(s, i)
         THEN LET w == utf8_char_width(s[i + 1])
              IN  Result(replace_range(s, i, i + w), i, SomeChar(decode_at(s, i + 1, w)))
         ELSE Abort(s, i)
    ELSE Result(s, i, NoneChar)

\* remove_next_word() that moves the cursor to the end of the cut, as
\* remove_prev_word() moves it to the start
remove_next_word_moves_index(s, i) ==
    LET next_index == get_next_word_pos(s, i)
    IN  IF next_index = Panic THEN Abort(s, i)
        ELSE IF range_ok(s, i, next_index)
             THEN Result(replace_range(s, i, next_index), next_index, Unit)
        ELSE Abort(s, i)

remove_next_word(s, i) ==
    LET next_index == get_next_word_pos(s, i)
    IN  IF next_index = Panic THEN Abort(s, i)
        ELSE IF range_ok(s, i, next_index) THEN Result(replace_range(s, i, next_index), i, Unit)
        ELSE Abort(s, i)

\* remove_prev_word() that moves the cursor first and then cuts the (now
\* empty) range up to it
remove_prev_word_moves_first(s, i) ==
    LET next_index == get_prev_word_pos(s, i)
    IN  IF next_index = Panic THEN Abort(s, i)
        ELSE IF range_ok(s, next_index, next_index)
             THEN Result(replace_range(s, next_index, next_index), next_index, Unit)
        ELSE Abort(s, i)

\* remove_prev_word() that does not move the cursor back to the cut
remove_prev_word_keeps_index(s, i) ==
    LET next_index == get_prev_word_pos(s, i)
    IN  IF next_index = Panic THEN Abort(s, i)
        ELSE IF range_ok(s, next_index, i)
             THEN Result(replace_range(s, next_index, i), i, Unit)
        ELSE Abort(s, i)

remove_prev_word(s, i) ==
    LET next_index == get_prev_word_pos(s, i)
    IN  IF next_index = Panic THEN Abort(s, i)
        ELSE IF range_ok(s, next_index, i)
             THEN Result(replace_range(s, next_index, i), next_index, Unit)
        ELSE Abort(s, i)

\* back() that removes the character under the cursor, then steps left
back_remove_then_left(s, i) ==
    LET r == remove(s, i)
        l == left(r.source, r.index)
    IN  IF r.panicked THEN r ELSE Result(l.source, l.index, r.ret)

\* back() that removes the character but does not hand it to the caller
back_drops_char(s, i) ==
    LET l == left(s, i)
        r == remove(l.source, l.index)
    IN  IF l.ret = Bool(TRUE)
        THEN (IF r.panicked THEN r ELSE Result(r.source, r.index, NoneChar))
        ELSE Result(l.source, l.index, NoneChar)

\* back() that removes whether or not left() moved
back_ignores_left(s, i) ==
    LET l == left(s, i)
    IN  remove(l.source, l.index)

back(s, i) ==
    LET l == left(s, i)
    IN  IF l.ret = Bool(TRUE) THEN remove(l.source, l.index)
        ELSE Result(l.source, l.index, NoneChar)

clear(s, i) == Result(<<>>, 0, Unit)

end(s, i) == Result(s, Len(s), Unit)

start(s, i) == Result(s, 0, Unit)

(***************************************************************************)
(* The state machine: a cursor and the caller's record of the last call    *)
(***************************************************************************)
\* all sequences of at most n characters of A
Texts(A, n) == UNION {[1..k -> A] : k \in 0..n}

\* Cursor::from(source), for every string of at most MaxLen characters
Init ==
    /\ source \in {from_chars(cs) : cs \in Texts(Alphabet, MaxLen)}
    /\ index = 0
    /\ op = "from"
    /\ arg = 0
    /\ ret = Unit
    /\ panicked = FALSE
    /\ old_source = source
    /\ old_index = 0
    /\ walk = "right"

\* one call of an operation on a live cursor: r is what the operation leaves.
\* walk follows the tests right() and left(): "right" while only right() has
\* been called since the cursor was at 0, "left" while only left() has been
\* called since end().
Call(name, a, r) ==
    /\ ~panicked
    /\ op' = name
    /\ arg' = a
    /\ old_source' = source
    /\ old_index' = index
    /\ source' = r.source
    /\ index' = r.index
    /\ ret' = r.ret
    /\ panicked' = r.panicked
    /\ walk' = IF name = "start" THEN "right"
               ELSE IF name = "end" THEN "left"
               ELSE IF name = walk THEN walk
               ELSE "none"

Substring == Call("substring", 0, substring(source, index))
Char == Call("char", 0, char(source, index))
Right == Call("right", 0, right(source, index))
Left == Call("left", 0, left(source, index))
NextWord == Call("next_word", 0, next_word(source, index))
PrevWord == Call("prev_word", 0, prev_word(source, index))
Insert ==
    /\ Len(chars(source)) < MaxLen
    /\ \E c \in Alphabet : Call("insert", c, insert(source, index, c))
Remove == Call("remove", 0, remove(source, index))
RemoveNextWord == Call("remove_next_word", 0, remove_next_word(source, index))
RemovePrevWord == Call("remove_prev_word", 0, remove_prev_word(source, index))
Back == Call("back", 0, back(source, index))
Clear == Call("clear", 0, clear(source, index))
End == Call("end", 0, end(source, index))
Start == Call("start", 0, start(source, index))

Next ==
    \/ Substring
    \/ Char
    \/ Right
    \/ Left
    \/ NextWord
    \/ PrevWord
    \/ Insert
    \/ Remove
    \/ RemoveNextWord
    \/ RemovePrevWord
    \/ Back
    \/ Clear
    \/ End
    \/ Start

Spec == Init /\ [][Next]_vars

(***************************************************************************)
(* The same cursor on single-byte text only                                *)
(***************************************************************************)
\* Cursor::from(source), for every single-byte string of at most MaxAsciiLen
\* characters
InitAscii ==
    /\ source \in {from_chars(cs) : cs \in Texts(AsciiAlphabet, MaxAsciiLen)}
    /\ index = 0
    /\ op = "from"
    /\ arg = 0
    /\ ret = Unit
    /\ panicked = FALSE
    /\ old_source = source
    /\ old_index = 0
    /\ walk = "right"

InsertAscii ==
    /\ Len(chars(source)) < MaxAsciiLen
    /\ \E c \in AsciiAlphabet : Call("insert", c, insert(source, index, c))

NextAscii ==
    \/ Substring
    \/ Char
    \/ Right
    \/ Left
    \/ NextWord
    \/ PrevWord
    \/ InsertAscii
    \/ Remove
    \/ RemoveNextWord
    \/ RemovePrevWord
    \/ Back
    \/ Clear
    \/ End
    \/ Start

SpecAscii == InitAscii /\ [][NextAscii]_vars

(***************************************************************************)
(* is_word_boundary on its own: every pair of a set of characters          *)
(***************************************************************************)
\* ASCII, every White_Space code point, and a two-byte letter
BoundaryChars ==
    (0..127) \cup {133, 160, 246, 5760, 8232, 8233, 8239, 8287, 12288} \cup (8192..8202)

\* a buffer of two characters c, next_c
InitBoundary ==
    /\ source \in {from_chars(<<c, next_c>>) : c \in BoundaryChars, next_c \in BoundaryChars}
    /\ index = 0
    /\ op = "from"
    /\ arg = 0
    /\ ret = Unit
    /\ panicked = FALSE
    /\ old_source = source
    /\ old_index = 0
    /\ walk = "right"

\* is_word_boundary(c, next_c) on the two characters of the buffer
IsWordBoundary ==
    LET cs == chars(source)
    IN  Call("is_word_boundary", 0,
             Result(source, index, Bool(is_word_boundary(nth(cs, 0), nth(cs, 1)))))

NextBoundary == IsWordBoundary

SpecBoundary == InitBoundary /\ [][NextBoundary]_vars

TypeOK ==
    /\ source \in Seq(0..255)
    /\ index \in Nat
    /\ panicked \in BOOLEAN
    /\ walk \in {"right", "left", "none"}

(***************************************************************************)
(* Vocabulary of the properties                                            *)
(***************************************************************************)
\* the byte offsets at which the characters of s start, from its characters
\* and their encoded widths
char_starts(s) ==
    LET cs == chars(s)
    IN  {Len(from_chars(SubSeq(cs, 1, k))) : k \in 0..(Len(cs) - 1)}

\* a valid position: the start of a character, or the byte length
char_boundaries(s) == char_starts(s) \cup {Len(s)}

\* the buffer holds at least one multi-byte character
multi_byte(s) == Len(chars(s)) < Len(s)

\* the buffer holds both single-byte and multi-byte characters
mixed(s) == multi_byte(s) /\ \E k \in 1..Len(s) : s[k] < 128

\* the character that starts last before offset p (p > 0)
char_before(s, p) == chars(s)[Cardinality({b \in char_starts(s) : b < p})]

\* the bytes the last call took out of the buffer: the new buffer is the old
\* one without the n bytes that followed the new position
removed == SubSeq(old_source, index + 1, index + (Len(old_source) - Len(source)))

\* the bytes a returned value hands to the caller (none for () and None)
reported(r) ==
    IF r[1] = "some" THEN encode_utf8(r[2]) ELSE IF r[1] = "str" THEN r[2] ELSE <<>>

\* the operations that take text out of the buffer
RemovalOps == {"remove", "back", "remove_next_word", "remove_prev_word", "clear"}

\* next_word_position as the specification words it, scanning characters:
\* from the character at k (0-based), the first adjacent pair that is a word
\* boundary, then the first non-whitespace character after the first
\* character of that pair; the result is a byte offset into from_chars(cs)
char_next_word_pos(cs, k) ==
    LET n == Len(cs)
        pairs == {j \in k..(n - 2) : is_word_boundary(cs[j + 1], cs[j + 2])}
    IN  IF pairs = {} THEN Len(from_chars(cs))
        ELSE LET words == {m \in (Min(pairs) + 1)..(n - 1) : ~is_whitespace(cs[m + 1])}
             IN  IF words = {} THEN Len(from_chars(cs))
                 ELSE Len(from_chars(SubSeq(cs, 1, Min(words))))

(***************************************************************************)
(* C1 - character-boundary invariant                                       *)
(***************************************************************************)
\* C1: after any sequence of public operations on a cursor built from any
\* string, index is the byte offset of the start of a character or the byte
\* length of the buffer; it is never inside a multi-byte character.
C1_CharBoundary == index \in char_boundaries(source)

(***************************************************************************)
(* C2 - range invariant                                                    *)
(***************************************************************************)
\* C2: after every public operation that completes, 0 <= index <= byte
\* length of the buffer.
C2_Range == ~panicked => (0 <= index /\ index <= Len(source))

\* remove_prev_word completed on a buffer with a multi-byte character: it
\* cut the text before the cursor and moved the cursor back to the cut
C2_Witness ==
    /\ ~panicked
    /\ op = "remove_prev_word"
    /\ multi_byte(source)
    /\ Len(source) < Len(old_source)
    /\ index < old_index

(***************************************************************************)
(* C3 - no operation panics                                                *)
(***************************************************************************)
\* C3: in every reachable state every public operation completes and
\* returns normally; none panics.
C3_NoPanic == ~panicked

(***************************************************************************)
(* C4 - word stepping on variable-width characters                         *)
(***************************************************************************)
\* C4: from any position on a character boundary, next_word sets index to
\* the byte offset of the character chosen by the scan carried out over
\* characters, or to the byte length if either scan finds nothing.
C4_NextWordByChars ==
    (op = "next_word" /\ old_index \in char_boundaries(old_source)) =>
        /\ ~panicked
        /\ index = char_next_word_pos(chars(old_source),
                                      Len(chars(prefix(old_source, old_index))))

(***************************************************************************)
(* C5 - what removals report                                               *)
(***************************************************************************)
\* C5 as stated: each of remove, back, remove_next_word, remove_prev_word
\* and clear returns to the caller the content it removed from the buffer,
\* or none when it removed nothing.
C5_AllRemovalsReport ==
    (op \in RemovalOps /\ ~panicked) => reported(ret) = removed

\* C5 as amended: remove and back return the character they removed from
\* the buffer, or none when they removed nothing; remove_next_word,
\* remove_prev_word and clear return nothing to the caller.
C5_CharRemovalsReport ==
    /\ (op \in {"remove", "back"} /\ ~panicked) =>
          /\ source = prefix(old_source, index) \o suffix(old_source, index + Len(removed))
          /\ IF removed = <<>> THEN ret = NoneChar
             ELSE ret[1] = "some" /\ encode_utf8(ret[2]) = removed
    /\ (op \in {"remove_next_word", "remove_prev_word", "clear"} /\ ~panicked) =>
          ret = Unit

\* back took a two-byte character out of the buffer and returned it
C5_Witness ==
    /\ op = "back"
    /\ ret = SomeChar(246)
    /\ Len(source) = Len(old_source) - 2

(***************************************************************************)
(* C6 - insert then back                                                   *)
(***************************************************************************)
\* C6: from a position on a character boundary, insert(c) immediately
\* followed by back() returns c and leaves the buffer and index exactly as
\* they were before the insert, for c of any encoded width.
C6_InsertBackInverse ==
    (op = "insert" /\ old_index \in char_boundaries(old_source)) =>
        LET r == back(source, index)
        IN  /\ ~panicked
            /\ ~r.panicked
            /\ r.ret = SomeChar(arg)
            /\ r.source = old_source
            /\ r.index = old_index

\* a three-byte character was inserted between two characters, and back
\* returns it
C6_Witness ==
    /\ op = "insert"
    /\ arg = 12288
    /\ old_index > 0
    /\ old_index < Len(old_source)
    /\ back(source, index).ret = SomeChar(12288)

(***************************************************************************)
(* C7 - right then left                                                    *)
(***************************************************************************)
\* C7: from a position on a character boundary strictly before the byte
\* length, right() followed by left() restores the original index, left
\* returns true, and the buffer is unchanged.
C7_RightLeftRoundTrip ==
    (op = "right" /\ old_index \in char_boundaries(old_source)
                  /\ old_index < Len(old_source)) =>
        LET r == left(source, index)
        IN  /\ source = old_source
            /\ r.ret = Bool(TRUE)
            /\ r.index = old_index
            /\ r.source = old_source

\* right stepped over a multi-byte character that is not the first one, and
\* left steps back over it
C7_Witness ==
    /\ op = "right"
    /\ old_index \in char_starts(old_source)
    /\ old_index > 0
    /\ index >= old_index + 2
    /\ left(source, index).index = old_index

(***************************************************************************)
(* C8 - repeated right from 0                                              *)
(***************************************************************************)
\* C8: repeated right() from index 0 visits exactly the byte offsets at
\* which the characters start, in increasing order and skipping none, never
\* an offset inside a character, then reaches the byte length and stays
\* there for every further call.
C8_RightWalk ==
    walk = "right" =>
        /\ index \in char_boundaries(source)
        /\ op = "right" =>
              /\ source = old_source
              /\ index = IF old_index = Len(old_source) THEN old_index
                         ELSE Min({b \in char_boundaries(old_source) : b > old_index})

\* a walk over a mixed buffer that has taken a step and then stepped over a
\* multi-byte character in one call
C8_Witness ==
    /\ walk = "right"
    /\ op = "right"
    /\ mixed(source)
    /\ old_index > 0
    /\ index >= old_index + 2

(***************************************************************************)
(* C9 - left                                                               *)
(***************************************************************************)
\* C9: left() returns true exactly when index > 0 before the call; when it
\* returns true index has become the start of the character immediately
\* before the old index (the old index minus that character's encoded
\* width), when it returns false index is unchanged; repeated from the end
\* it visits exactly the character starts in decreasing order, then stays
\* at 0.
C9_Left ==
    op = "left" =>
        /\ source = old_source
        /\ ret = Bool(old_index > 0)
        /\ old_index > 0 =>
              /\ index = Max({b \in char_starts(old_source) : b < old_index})
              /\ index = old_index - len_utf8(char_before(old_source, old_index))
        /\ old_index = 0 => index = 0
        /\ walk = "left" => index \in char_boundaries(source)

(***************************************************************************)
(* C10 - no-ops at the ends of the buffer                                  *)
(***************************************************************************)
\* C10: at index = byte length right() changes nothing; at index 0 left()
\* returns false and back() returns none, and neither changes the buffer
\* or index; so any number of such calls changes nothing.
C10_EndNoOps ==
    /\ (op = "right" /\ old_index = Len(old_source)) =>
          (source = old_source /\ index = old_index /\ ~panicked)
    /\ (op = "left" /\ old_index = 0) =>
          (ret = Bool(FALSE) /\ source = old_source /\ index = 0 /\ ~panicked)
    /\ (op = "back" /\ old_index = 0) =>
          (ret = NoneChar /\ source = old_source /\ index = 0 /\ ~panicked)

\* back was called at index 0 of a non-empty buffer and returned none
C10_Witness ==
    /\ op = "back"
    /\ old_index = 0
    /\ Len(old_source) > 0
    /\ ret = NoneChar

(***************************************************************************)
(* C11 - back pops the text before the cursor                              *)
(***************************************************************************)
\* C11: at a character-boundary index > 0, back() returns the character
\* immediately before the cursor, removes exactly that character, lowers
\* index by its encoded width and leaves the text after the cursor
\* unchanged (so repeated calls pop the text before the cursor from its
\* end); at index 0 it returns none.
C11_BackPops ==
    (op = "back" /\ old_index \in char_boundaries(old_source)) =>
        IF old_index = 0 THEN ret = NoneChar /\ source = old_source /\ index = 0
        ELSE LET c == char_before(old_source, old_index)
             IN  /\ ~panicked
                 /\ ret = SomeChar(c)
                 /\ index = old_index - len_utf8(c)
                 /\ prefix(source, index) \o encode_utf8(c) = prefix(old_source, old_index)
                 /\ suffix(source, index) = suffix(old_source, old_index)

\* back took a multi-byte character from between two other characters
C11_Witness ==
    /\ op = "back"
    /\ ret[1] = "some"
    /\ old_index - index >= 2
    /\ index > 0
    /\ index < Len(source)

(***************************************************************************)
(* C12 - insert                                                            *)
(***************************************************************************)
\* C12: insert(c) at a character-boundary index: the new text before the
\* cursor is the old text before the cursor followed by c, the text after
\* the cursor is unchanged, and index grows by exactly the encoded width
\* of c.
C12_Insert ==
    (op = "insert" /\ old_index \in char_boundaries(old_source)) =>
        /\ ~panicked
        /\ index = old_index + len_utf8(arg)
        /\ chars(prefix(source, index)) = chars(prefix(old_source, old_index)) \o <<arg>>
        /\ suffix(source, index) = suffix(old_source, old_index)

\* a two-byte character was inserted between two characters
C12_Witness ==
    /\ op = "insert"
    /\ arg = 246
    /\ old_index > 0
    /\ index < Len(source)
    /\ index = old_index + 2

(***************************************************************************)
(* C13 - remove                                                            *)
(***************************************************************************)
\* C13: remove() at a character-boundary index: before the byte length it
\* removes exactly the character that starts at index and returns it, with
\* index and the text before the cursor unchanged; at the byte length it
\* returns none and changes nothing.
C13_Remove ==
    (op = "remove" /\ old_index \in char_boundaries(old_source)) =>
        IF old_index = Len(old_source)
        THEN ret = NoneChar /\ source = old_source /\ index = old_index /\ ~panicked
        ELSE LET c == chars(suffix(old_source, old_index))[1]
             IN  /\ ~panicked
                 /\ ret = SomeChar(c)
                 /\ index = old_index
                 /\ prefix(source, index) = prefix(old_source, old_index)
                 /\ encode_utf8(c) \o suffix(source, index) = suffix(old_source, old_index)

\* remove took a three-byte character that was followed by more text
C13_Witness ==
    /\ op = "remove"
    /\ ret = SomeChar(12288)
    /\ index > 0
    /\ index < Len(source)
    /\ Len(source) = Len(old_source) - 3

(***************************************************************************)
(* Vocabulary of the word-step properties                                  *)
(***************************************************************************)
\* no adjacent pair of characters of s is a word boundary
no_boundary(s) ==
    LET cs == chars(s)
    IN  \A k \in 1..(Len(cs) - 1) : ~is_word_boundary(cs[k], cs[k + 1])

\* the positions next_word() visits from i, i included; fuel bounds the walk
RECURSIVE next_word_stops(_, _, _)
next_word_stops(s, i, fuel) ==
    IF i >= Len(s) \/ fuel = 0 THEN {i}
    ELSE {i} \cup next_word_stops(s, get_next_word_pos(s, i), fuel - 1)

\* the positions repeated next_word() visits from 0
forward_stops(s) == next_word_stops(s, 0, Len(s))

\* the number of next_word() calls that take i to the byte length, or
\* Len(s) + 1 if Len(s) calls do not
RECURSIVE next_word_steps(_, _, _)
next_word_steps(s, i, fuel) ==
    IF i >= Len(s) THEN 0
    ELSE IF fuel = 0 THEN Len(s) + 1
    ELSE 1 + next_word_steps(s, get_next_word_pos(s, i), fuel - 1)

\* the number of prev_word() calls that take i to 0, or Len(s) + 1 if
\* Len(s) calls do not
RECURSIVE prev_word_steps(_, _, _)
prev_word_steps(s, i, fuel) ==
    IF i <= 0 THEN 0
    ELSE IF fuel = 0 THEN Len(s) + 1
    ELSE 1 + prev_word_steps(s, get_prev_word_pos(s, i), fuel - 1)

\* the class of a character: whitespace, separator, or word
class(c) ==
    IF is_whitespace(c) THEN "whitespace"
    ELSE IF c \in WORD_SEPARATORS THEN "separator"
    ELSE "word"

(***************************************************************************)
(* C14 - remove_next_word on single-byte text                              *)
(***************************************************************************)
\* C14: remove_next_word() on a single-byte buffer leaves index and the text
\* before the cursor unchanged, and the new buffer is the old one without
\* the half-open range [index, get_next_word_pos(buffer, index)), so it is
\* that many bytes shorter.
C14_RemoveNextWord ==
    op = "remove_next_word" =>
        LET n == get_next_word_pos(old_source, old_index)
        IN  /\ ~panicked
            /\ index = old_index
            /\ prefix(source, index) = prefix(old_source, old_index)
            /\ source = prefix(old_source, old_index) \o suffix(old_source, n)
            /\ Len(source) = Len(old_source) - (n - old_index)

\* a cut in the middle of the buffer: text remains on both sides
C14_Witness ==
    /\ op = "remove_next_word"
    /\ index > 0
    /\ index < Len(source)
    /\ Len(source) < Len(old_source)

(***************************************************************************)
(* C15 - remove_prev_word on single-byte text                              *)
(***************************************************************************)
\* C15: remove_prev_word() on a single-byte buffer sets index to
\* get_prev_word_pos(old buffer, old index), the new buffer is the old one
\* without the half-open range [that position, old index), and the text
\* after the cursor is unchanged.
C15_RemovePrevWord ==
    op = "remove_prev_word" =>
        LET n == get_prev_word_pos(old_source, old_index)
        IN  /\ ~panicked
            /\ index = n
            /\ source = prefix(old_source, n) \o suffix(old_source, old_index)
            /\ suffix(source, index) = suffix(old_source, old_index)

\* a cut in the middle of the buffer: text remains on both sides
C15_Witness ==
    /\ op = "remove_prev_word"
    /\ index > 0
    /\ index < old_index
    /\ index < Len(source)
    /\ Len(source) = Len(old_source) - (old_index - index)

(***************************************************************************)
(* C16 - fallback on empty or boundary-less text                           *)
(***************************************************************************)
\* C16: on a single-byte text that is empty or has no adjacent pair forming
\* a word boundary, from every index next_word goes to the byte length and
\* prev_word goes to 0 (both to 0 on the empty text).
C16_Fallback ==
    /\ (op = "next_word" /\ no_boundary(old_source)) =>
          (~panicked /\ index = Len(old_source))
    /\ (op = "prev_word" /\ no_boundary(old_source)) =>
          (~panicked /\ index = 0)

\* prev_word from the end of a boundary-less text of several characters
C16_Witness ==
    /\ op = "prev_word"
    /\ no_boundary(old_source)
    /\ Len(old_source) >= 3
    /\ old_index = Len(old_source)
    /\ index = 0

(***************************************************************************)
(* C17 - prev_word retraces next_word                                      *)
(***************************************************************************)
\* C17: on single-byte text the positions repeated prev_word() visits from
\* the end are the positions repeated next_word() visits from 0, in reverse
\* order: from a forward stop > 0, prev_word goes to the forward stop just
\* before it.
C17_PrevRetracesNext ==
    (op = "prev_word" /\ old_index > 0 /\ old_index \in forward_stops(old_source)) =>
        index = Max({p \in forward_stops(old_source) : p < old_index})

(***************************************************************************)
(* C18 - word steps land on a token start                                  *)
(***************************************************************************)
\* C18: on single-byte text next_word goes to the byte length or to a
\* non-whitespace character, and prev_word goes to 0 or to a
\* non-whitespace character.
C18_TokenStart ==
    /\ op = "next_word" => (index = Len(source) \/ ~is_whitespace(source[index + 1]))
    /\ op = "prev_word" => (index = 0 \/ ~is_whitespace(source[index + 1]))

(***************************************************************************)
(* C19 - the boundary rule is a three-way classification                   *)
(***************************************************************************)
\* C19: no character is both whitespace and a separator, and
\* is_word_boundary(c, next_c) is true exactly when c and next_c are in
\* different classes among whitespace, separator and word.
C19_ThreeClasses ==
    op = "is_word_boundary" =>
        LET c == chars(source)[1]
            next_c == chars(source)[2]
        IN  /\ ~(is_whitespace(c) /\ c \in WORD_SEPARATORS)
            /\ ~(is_whitespace(next_c) /\ next_c \in WORD_SEPARATORS)
            /\ ret = Bool(class(c) # class(next_c))

\* the rule applied to punctuation next to whitespace
C19_Witness ==
    /\ op = "is_word_boundary"
    /\ chars(source) = <<46, 32>>
    /\ ret = Bool(TRUE)

(***************************************************************************)
(* C20 - word stepping makes progress                                      *)
(***************************************************************************)
\* C20: on single-byte text next_word strictly increases index when index <
\* byte length, prev_word strictly decreases it when index > 0, and from
\* any position repeated next_word reaches the byte length and repeated
\* prev_word reaches 0 in at most byte-length calls.
C20_Progress ==
    /\ (op = "next_word" /\ old_index < Len(old_source)) =>
          (~panicked /\ index > old_index /\ index <= Len(source))
    /\ (op = "prev_word" /\ old_index > 0) =>
          (~panicked /\ index < old_index /\ index >= 0)
    /\ next_word_steps(source, index, Len(source)) <= Len(source)
    /\ prev_word_steps(source, index, Len(source)) <= Len(source)

\* next_word stepped from inside the buffer to a later position inside it
C20_Witness ==
    /\ op = "next_word"
    /\ old_index > 0
    /\ index > old_index
    /\ index < Len(source)

====
